---- MODULE Spec2Model ----
(***************************************************************************)
(* Werkday server: local stores (config, rolling activity caches, per-day  *)
(* JIRA buckets) and the HTTP handlers that read and write them.           *)
(*                                                                         *)
(* Instants are whole hours since 00:00Z of day 0; a calendar date is a    *)
(* day number, and the UTC date of an instant h is h \div 24.              *)
(* Record ids are tuples: `issue-${id}` is <<"issue", id>>,                *)
(* `transition-${issue}-${history}` is <<"transition", issue, history>>.   *)
(***************************************************************************)
EXTENDS Integers, Sequences, FiniteSets, TLC

VARIABLES
    now,                \* wall clock read by `new Date()`
    githubCacheFile,    \* ~/.werkday/github-cache.json
    jiraCacheFile,      \* ~/.werkday/jira-cache.json
    githubCacheDefault, \* the in-memory object DEFAULT_GITHUB_CACHE
    jiraCacheDefault,   \* the in-memory object DEFAULT_JIRA_CACHE
    inserted,           \* history: records handed to addJiraActivities
    earlier,            \* history: what the last single-day sync started from
    configFile,         \* ~/.werkday/config.json
    request,            \* the HTTP request handled last
    response,           \* the HTTP response sent last
    tz,                 \* the time zone the server process runs in
    jiraDaily,          \* the per-day JIRA blobs, by calendar date
    upstreamCalls,      \* upstream calls issued while handling the last request
    summariesFile,      \* ~/.werkday/summaries.json
    notesFile,          \* ~/.werkday/notes.json
    summariesDefault,   \* the in-memory object DEFAULT_SUMMARIES
    notesDefault,       \* the in-memory object DEFAULT_NOTES
    writable,           \* whether the data directory accepts writes
    pending             \* the addJiraActivities calls in flight

vars == <<now, githubCacheFile, jiraCacheFile, githubCacheDefault,
          jiraCacheDefault, inserted, earlier, configFile, request, response, tz,
          jiraDaily, upstreamCalls, summariesFile, notesFile, summariesDefault,
          notesDefault, writable, pending>>

cacheVars == <<githubCacheFile, jiraCacheFile, githubCacheDefault,
               jiraCacheDefault, inserted, earlier, pending>>
httpVars == <<request, response, upstreamCalls>>
reportVars == <<summariesFile, notesFile, summariesDefault, notesDefault>>

----------------------------------------------------------------------------
(* Bounds *)

\* `.slice(0, 500)`, scaled down
CacheCap == 2
\* largest clock value
MaxClock == 1
\* longest batch handed to addGitHubActivities / addJiraActivities directly
MaxBatch == 2
\* most fields a request body names, unless it is a response sent back
MaxBodyFields == 1
\* the calendar dates are 0..MaxDay
MaxDay == 1
\* notes the notes store may hold
MaxNotes == 1

Days == 0..MaxDay
\* a date range handed to the date walk alone lies within this many days of
\* day 0
MaxWalkDay == 4

NullTime == -1

----------------------------------------------------------------------------
(* Sequence helpers *)

Range(s) == {s[i] : i \in 1..Len(s)}

Take(s, n) == IF Len(s) <= n THEN s ELSE SubSeq(s, 1, n)

SeqsUpTo(S, n) == UNION {[1..k -> S] : k \in 0..n}

Ids(s) == {s[i].id : i \in 1..Len(s)}

NoDuplicateIds(s) == \A i, j \in 1..Len(s) : s[i].id = s[j].id => i = j

SortedDesc(s) == \A i \in 1..(Len(s) - 1) : s[i].date >= s[i + 1].date

----------------------------------------------------------------------------
(* Blob store *)

AbsentBlob(default) == [exists |-> FALSE, data |-> default]
Blob(data) == [exists |-> TRUE, data |-> data]

\* readJsonFile: the parsed content, or the defaultValue object itself
readJsonFile(file, defaultObject) ==
    IF file.exists THEN file.data ELSE defaultObject

----------------------------------------------------------------------------
(* Config store.  Every config value is a JSON atom written as a string;    *)
(* lists are opaque ("[]", "[a/b]"): no handler modelled here looks inside. *)

Null == "<null>"
Undefined == "<undefined>"
MASK == "***"

Truthy(v) == v \notin {Null, Undefined, ""}
Nullish(v) == v \in {Null, Undefined}

\* body.k of a parsed JSON object
Field(obj, k) == IF k \in DOMAIN obj THEN obj[k] ELSE Undefined

\* a ?? b
Coalesce(a, b) == IF Nullish(a) THEN b ELSE a

\* { ...f, ...g }
Spread(f, g) ==
    [k \in (DOMAIN f) \cup (DOMAIN g) |-> IF k \in DOMAIN g THEN g[k] ELSE f[k]]

Sections == {"github", "jira", "openrouter", "preferences"}

DEFAULT_CONFIG ==
    [github |-> [token |-> Null, username |-> Null, avatarUrl |-> Null,
                 organizations |-> "[]", repositories |-> "[]"],
     jira |-> [domain |-> Null, email |-> Null, apiToken |-> Null,
               displayName |-> Null, accountId |-> Null, projects |-> "[]"],
     openrouter |-> [apiKey |-> Null, model |-> "anthropic/claude-haiku-4.5"],
     preferences |-> [theme |-> "dark", sidebarCollapsed |-> "false"]]

\* getConfig applied to the content of the config blob
MigrateConfig(saved) ==
    [sec \in Sections |-> Spread(DEFAULT_CONFIG[sec], saved[sec])]

getConfig == MigrateConfig(readJsonFile(configFile, DEFAULT_CONFIG))

\* variant: a section named by the update replaces the stored section
UpdatedConfigShallow(current, update) ==
    [sec \in Sections |->
        IF sec \in DOMAIN update THEN update[sec] ELSE current[sec]]

\* `updated` of saveConfig: { ...current, ...config, <section>: { ...current.<section>, ...config.<section> } }
UpdatedConfig(current, update) ==
    [sec \in Sections |->
        IF sec \in DOMAIN update THEN Spread(current[sec], update[sec])
        ELSE current[sec]]

saveConfig(update) == configFile' = Blob(UpdatedConfig(getConfig, update))

\* hasValidToken
HasValidToken(v) == Truthy(v) /\ v # MASK

Masked(v) == IF HasValidToken(v) THEN MASK ELSE Null

\* body of the GET /config response
ConfigResponse(config) ==
    [config EXCEPT !.github.token = Masked(@), !.openrouter.apiKey = Masked(@)]

\* body of the GET /github/config response
GithubConfigResponse(config) ==
    [token |-> Masked(config.github.token),
     username |-> config.github.username,
     avatarUrl |-> config.github.avatarUrl,
     organizations |-> config.github.organizations,
     repositories |-> config.github.repositories]

\* body of the GET /jira/config response
JiraConfigResponse(config) ==
    [domain |-> config.jira.domain,
     email |-> config.jira.email,
     apiToken |-> Masked(config.jira.apiToken),
     displayName |-> config.jira.displayName,
     projects |-> config.jira.projects]

\* c.json(out, status) after the handler issued the upstream calls `calls`
RespondAfter(endpoint, body, status, out, calls) ==
    /\ request' = [endpoint |-> endpoint, body |-> body]
    /\ response' = [endpoint |-> endpoint, status |-> status, body |-> out]
    /\ upstreamCalls' = calls

\* c.json(out, status) of a handler that issued no upstream call
Respond(endpoint, body, status, out) ==
    RespondAfter(endpoint, body, status, out, <<>>)

\* a body that is text/plain, not JSON
PlainText(text) == [text |-> text]

\* an exception leaves the handler: no c.json is reached, and the framework's
\* default error handler answers 500 with a text/plain body
EscapesAfter(endpoint, body, calls) ==
    RespondAfter(endpoint, body, 500, PlainText("Internal Server Error"), calls)

Escapes(endpoint, body) == EscapesAfter(endpoint, body, <<>>)

GetConfig ==
    /\ Respond("GET /config", <<>>, 200, ConfigResponse(getConfig))
    /\ UNCHANGED <<now, cacheVars, configFile, tz, jiraDaily, reportVars, writable>>

GetGithubConfig ==
    /\ Respond("GET /github/config", <<>>, 200, GithubConfigResponse(getConfig))
    /\ UNCHANGED <<now, cacheVars, configFile, tz, jiraDaily, reportVars, writable>>

GetJiraConfig ==
    /\ Respond("GET /jira/config", <<>>, 200, JiraConfigResponse(getConfig))
    /\ UNCHANGED <<now, cacheVars, configFile, tz, jiraDaily, reportVars, writable>>

Success == [success |-> "true"]

\* POST /config
PostConfig(body) ==
    /\ IF writable
       THEN /\ saveConfig(body)
            /\ Respond("POST /config", body, 200, Success)
       ELSE /\ Escapes("POST /config", body)
            /\ UNCHANGED configFile
    /\ UNCHANGED <<now, cacheVars, tz, jiraDaily, reportVars, writable>>

\* newToken of POST /github/config
GithubNewToken(body, config) ==
    IF Truthy(Field(body, "token")) /\ Field(body, "token") # MASK
    THEN body.token ELSE config.github.token

\* POST /github/config
PostGithubConfig(body) ==
    LET config == getConfig IN
    /\ IF writable
       THEN /\ saveConfig([github |->
               Spread(config.github,
                 [token |-> GithubNewToken(body, config),
                  username |-> Coalesce(Field(body, "username"), config.github.username),
                  avatarUrl |-> Coalesce(Field(body, "avatarUrl"), config.github.avatarUrl),
                  organizations |-> Coalesce(Field(body, "organizations"),
                                             config.github.organizations),
                  repositories |-> Coalesce(Field(body, "repositories"),
                                            config.github.repositories)])])
            /\ Respond("POST /github/config", body, 200, Success)
       ELSE /\ Escapes("POST /github/config", body)
            /\ UNCHANGED configFile
    /\ UNCHANGED <<now, cacheVars, tz, jiraDaily, reportVars, writable>>

\* newToken of POST /jira/config
JiraNewToken(body, config) ==
    IF Truthy(Field(body, "apiToken")) /\ Field(body, "apiToken") # MASK
    THEN body.apiToken ELSE config.jira.apiToken

\* POST /jira/config
PostJiraConfig(body) ==
    LET config == getConfig IN
    /\ IF writable
       THEN /\ saveConfig([jira |->
               Spread(config.jira,
                 [domain |-> Coalesce(Field(body, "domain"), config.jira.domain),
                  email |-> Coalesce(Field(body, "email"), config.jira.email),
                  apiToken |-> JiraNewToken(body, config),
                  projects |-> Coalesce(Field(body, "projects"), config.jira.projects)])])
            /\ Respond("POST /jira/config", body, 200, Success)
       ELSE /\ Escapes("POST /jira/config", body)
            /\ UNCHANGED configFile
    /\ UNCHANGED <<now, cacheVars, tz, jiraDaily, reportVars, writable>>

\* newApiKey of POST /config/openrouter
OpenrouterNewApiKey(body, config) ==
    IF Field(body, "apiKey") = Null THEN Null
    ELSE IF Truthy(Field(body, "apiKey")) /\ Field(body, "apiKey") # MASK
    THEN body.apiKey ELSE config.openrouter.apiKey

\* POST /config/openrouter
PostConfigOpenrouter(body) ==
    LET config == getConfig IN
    /\ IF writable
       THEN /\ saveConfig([openrouter |->
               [apiKey |-> OpenrouterNewApiKey(body, config),
                model |-> Coalesce(Field(body, "model"), config.openrouter.model)]])
            /\ Respond("POST /config/openrouter", body, 200, Success)
       ELSE /\ Escapes("POST /config/openrouter", body)
            /\ UNCHANGED configFile
    /\ UNCHANGED <<now, cacheVars, tz, jiraDaily, reportVars, writable>>

----------------------------------------------------------------------------
(* Rolling caches *)

DEFAULT_GITHUB_CACHE == [lastSync |-> NullTime, activities |-> <<>>]
DEFAULT_JIRA_CACHE == [lastSync |-> NullTime, activities |-> <<>>]

getGitHubCache == readJsonFile(githubCacheFile, githubCacheDefault)
getJiraCache == readJsonFile(jiraCacheFile, jiraCacheDefault)

\* Array.prototype.sort with (a, b) => date(b) - date(a): stable, descending.
\* The element at index i lands behind every later-dated element and behind
\* the equally dated elements that precede it.
SortByDateDesc(s) ==
    LET n == Len(s)
        rank == [i \in 1..n |->
                    1 + Cardinality({j \in 1..n : s[j].date > s[i].date})
                      + Cardinality({j \in 1..(i - 1) : s[j].date = s[i].date})]
    IN [p \in 1..n |-> s[CHOOSE i \in 1..n : rank[i] = p]]

\* variant: the filter on existing ids is missing
NewActivitiesUnfiltered(cache, activities) == activities

\* incoming records whose id is not in the cache
NewActivities(cache, activities) ==
    SelectSeq(activities, LAMBDA a : a.id \notin Ids(cache.activities))

\* variant: `.slice(0, 500)` is missing
MergeActivitiesNoSlice(cache, activities, clock) ==
    [lastSync |-> clock,
     activities |-> SortByDateDesc(NewActivities(cache, activities)
                                    \o cache.activities)]

\* variant: `.sort(...)` is missing
MergeActivitiesNoSort(cache, activities, clock) ==
    [lastSync |-> clock,
     activities |-> Take(NewActivities(cache, activities) \o cache.activities,
                         CacheCap)]

\* the body shared by addGitHubActivities and addJiraActivities
MergeActivities(cache, activities, clock) ==
    [lastSync |-> clock,
     activities |-> Take(SortByDateDesc(NewActivities(cache, activities)
                                         \o cache.activities), CacheCap)]

\* records handed to addGitHubActivities: a commit (id = sha) in two upstream
\* copies
GitHubPool ==
    {[id |-> <<"sha", 1>>, type |-> "commit", title |-> "t1", date |-> 10],
     [id |-> <<"sha", 1>>, type |-> "commit", title |-> "t2", date |-> 20]}

JiraRecord(n, summary, date) ==
    [id |-> <<"issue", n>>, type |-> "issue", issueKey |-> "K1",
     issueSummary |-> summary, date |-> date, timeSpentSeconds |-> 0]

\* records handed to addJiraActivities: three ids, issue 1 in two upstream
\* copies (summary and `updated` changed)
JiraCachePool ==
    {JiraRecord(1, "s1", 10), JiraRecord(1, "s2", 20),
     JiraRecord(2, "s1", 20), JiraRecord(3, "s1", 30)}

addGitHubActivities(activities) ==
    LET merged == MergeActivities(getGitHubCache, activities, now) IN
    /\ githubCacheFile' = Blob(merged)
    /\ githubCacheDefault' =
         IF githubCacheFile.exists THEN githubCacheDefault ELSE merged

addJiraActivities(activities) ==
    LET merged == MergeActivities(getJiraCache, activities, now) IN
    /\ jiraCacheFile' = Blob(merged)
    /\ jiraCacheDefault' =
         IF jiraCacheFile.exists THEN jiraCacheDefault ELSE merged

\* the requests whose handlers may be inside addJiraActivities together
Callers == {"a", "b"}

\* a call that has not started
NotCalled ==
    [stage |-> "idle", activities |-> <<>>, cache |-> DEFAULT_JIRA_CACHE,
     shared |-> FALSE, overlapped |-> FALSE]

\* addJiraActivities up to `await saveJiraCache(cache)`: the awaited read
\* returns, and the call merges into the object it got, which is its own
\* parsed copy or, with no file, the default object every call gets
BeginAddJiraActivities(c, activities) ==
    LET merged == MergeActivities(getJiraCache, activities, now) IN
    /\ pending[c].stage = "idle"
    /\ pending' = [pending EXCEPT ![c] =
                     [stage |-> "loaded", activities |-> activities,
                      cache |-> merged, shared |-> ~jiraCacheFile.exists,
                      overlapped |-> \E o \in Callers \ {c} :
                                        pending[o].stage = "loaded"]]
    /\ jiraCacheDefault' =
         IF jiraCacheFile.exists THEN jiraCacheDefault ELSE merged
    /\ UNCHANGED <<now, githubCacheFile, jiraCacheFile, githubCacheDefault,
                   inserted, earlier, configFile, httpVars, tz, jiraDaily,
                   reportVars, writable>>

\* the write of saveJiraCache(cache): the object the call holds is
\* serialized as it is now
FinishAddJiraActivities(c) ==
    /\ pending[c].stage = "loaded"
    /\ jiraCacheFile' = Blob(IF pending[c].shared THEN jiraCacheDefault
                             ELSE pending[c].cache)
    /\ pending' = [pending EXCEPT ![c].stage = "done"]
    /\ UNCHANGED <<now, githubCacheFile, githubCacheDefault, jiraCacheDefault,
                   inserted, earlier, configFile, httpVars, tz, jiraDaily,
                   reportVars, writable>>

----------------------------------------------------------------------------
(* Calendar dates *)

HoursPerDay == 24

\* a zone is its UTC offset in hours before and after one transition instant
UTC == [name |-> "UTC", before |-> 0, after |-> 0, at |-> 0]
\* clocks go forward from +01:00 to +02:00 at 01:00Z of day 0
SpringForward == [name |-> "spring-forward", before |-> 1, after |-> 2, at |-> 1]

ServerZones == {UTC, SpringForward}

\* clocks go back from -04:00 to -05:00 at 06:00Z of day 0
FallBack == [name |-> "fall-back", before |-> -4, after |-> -5, at |-> 6]

AllZones == ServerZones \cup {FallBack}

\* new Date('YYYY-MM-DD'): midnight UTC of the date
ParseDate(date) == date * HoursPerDay

\* d.toISOString().split('T')[0]: the UTC date of an instant
IsoDate(instant) == instant \div HoursPerDay

\* d.setDate(d.getDate() + 1): same wall-clock time on the next local day; a
\* wall-clock time that is skipped or repeated by the transition is read with
\* the offset in force before the transition
SetDatePlusOne(zone, instant) ==
    LET offset == IF instant < zone.at THEN zone.before ELSE zone.after
        wall == instant + offset + HoursPerDay
    IN IF wall - zone.before < zone.at THEN wall - zone.before
       ELSE IF wall - zone.after >= zone.at THEN wall - zone.after
       ELSE wall - zone.before

RECURSIVE WalkDates(_, _, _)
WalkDates(zone, current, end) ==
    IF current <= end
    THEN <<IsoDate(current)>> \o WalkDates(zone, SetDatePlusOne(zone, current), end)
    ELSE <<>>

\* "Generate all dates in range"
GenerateDates(zone, fromDate, toDate) ==
    WalkDates(zone, ParseDate(fromDate), ParseDate(toDate))

----------------------------------------------------------------------------
(* Per-day JIRA store *)

NoTimeLogged == -1

EmptySummary ==
    [issuesWorkedOn |-> 0, transitionsMade |-> 0, commentsMade |-> 0,
     worklogsAdded |-> 0, totalTimeLogged |-> NoTimeLogged]

NoDailyData ==
    [exists |-> FALSE, syncedAt |-> NullTime, activities |-> <<>>,
     summary |-> EmptySummary]

\* getJiraDailyData(date): the blob of the date, or null
getJiraDailyData(date) == jiraDaily[date]

\* saveJiraDailyData(dailyData): the blob of dailyData.date is replaced
saveJiraDailyData(store, date, dailyData) ==
    [store EXCEPT ![date] = dailyData]

----------------------------------------------------------------------------
(* Summaries and notes stores *)

NoSummary == [exists |-> FALSE]

\* { summaries: {} }: no date has a summary
DEFAULT_SUMMARIES == [d \in Days |-> NoSummary]

\* { notes: [] }
DEFAULT_NOTES == <<>>

getSummaries == readJsonFile(summariesFile, summariesDefault)

\* store.summaries[date] || null
getDailySummary(date) == getSummaries[date]

\* saveDailySummary: store.summaries[summary.date] = summary, on the object
\* readJsonFile returned, which is then written
saveDailySummary(summary) ==
    LET store == [getSummaries EXCEPT ![summary.date] = summary] IN
    /\ summariesFile' = Blob(store)
    /\ summariesDefault' =
         IF summariesFile.exists THEN summariesDefault ELSE store

getNotes == readJsonFile(notesFile, notesDefault)

\* store.notes after saveNote changed it: the note replaces the first note
\* of the same id in place, else it is unshifted
NotesWith(notes, note) ==
    IF \E i \in 1..Len(notes) : notes[i].id = note.id
    THEN [i \in 1..Len(notes) |->
            IF i = (CHOOSE j \in 1..Len(notes) :
                       /\ notes[j].id = note.id
                       /\ \A k \in 1..(j - 1) : notes[k].id # note.id)
            THEN note ELSE notes[i]]
    ELSE <<note>> \o notes

\* saveNote, the write succeeding
saveNote(note) ==
    LET store == NotesWith(getNotes, note) IN
    /\ notesFile' = Blob(store)
    /\ notesDefault' = IF notesFile.exists THEN notesDefault ELSE store

----------------------------------------------------------------------------
(* JIRA activity *)

OfType(activities, type) == SelectSeq(activities, LAMBDA a : a.type = type)

RECURSIVE SumSeconds(_)
SumSeconds(worklogs) ==
    IF worklogs = <<>> THEN 0
    ELSE worklogs[1].timeSpentSeconds + SumSeconds(Tail(worklogs))

\* Math.round(totalTimeSeconds / 3600 * 10) / 10, in tenths of an hour, and
\* "totalTimeHours > 0 ? `${totalTimeHours}h` : null"
TotalTimeLogged(worklogs) ==
    LET tenths == (SumSeconds(worklogs) * 10 + 1800) \div 3600
    IN IF tenths > 0 THEN tenths ELSE NoTimeLogged

IssueKeys(activities) == {activities[i].issueKey : i \in 1..Len(activities)}

\* "Dedupe activities by id": the first record of every id
DedupeById(activities) ==
    LET indexed == [i \in 1..Len(activities) |-> [index |-> i, a |-> activities[i]]]
        kept == SelectSeq(indexed, LAMBDA x :
                    \A j \in 1..(x.index - 1) : activities[j].id # x.a.id)
    IN [k \in 1..Len(kept) |-> kept[k].a]

Activity(id, type, issue, date, seconds) ==
    [id |-> id, type |-> type, issueKey |-> issue.key,
     issueSummary |-> issue.summary, date |-> date, timeSpentSeconds |-> seconds]

RECURSIVE Flatten(_)
Flatten(seqs) == IF seqs = <<>> THEN <<>> ELSE seqs[1] \o Flatten(Tail(seqs))

\* one record per `status` item of a changelog history created on the date
TransitionsOf(issue, date) ==
    Flatten([i \in 1..Len(issue.histories) |->
        LET history == issue.histories[i] IN
        IF IsoDate(history.created) = date
        THEN [j \in 1..Len(SelectSeq(history.items, LAMBDA item : item = "status")) |->
                 Activity(<<"transition", issue.id, history.id>>, "transition",
                          issue, history.created, 0)]
        ELSE <<>>])

CommentsOf(issue, date) ==
    LET matching == SelectSeq(issue.comments,
                              LAMBDA c : IsoDate(c.created) = date)
    IN [i \in 1..Len(matching) |->
           Activity(<<"comment", issue.id, matching[i].id>>, "comment", issue,
                    matching[i].created, 0)]

WorklogsOf(issue, date) ==
    LET matching == SelectSeq(issue.worklogs,
                              LAMBDA w : IsoDate(w.started) = date)
    IN [i \in 1..Len(matching) |->
           Activity(<<"worklog", issue.id, matching[i].id>>, "worklog", issue,
                    matching[i].started, matching[i].timeSpentSeconds)]

\* the records one returned issue contributes to the day: its transitions,
\* comments and worklogs of the date, then the issue itself if there were any
\* variant: the issue record is pushed whether or not the user acted
IssueActivitiesAlways(issue, date) ==
    TransitionsOf(issue, date) \o CommentsOf(issue, date)
    \o WorklogsOf(issue, date)
    \o <<Activity(<<"issue", issue.id>>, "issue", issue, issue.updated, 0)>>

IssueActivities(issue, date) ==
    LET subs == TransitionsOf(issue, date) \o CommentsOf(issue, date)
                \o WorklogsOf(issue, date)
    IN IF subs # <<>>
       THEN subs \o <<Activity(<<"issue", issue.id>>, "issue", issue,
                               issue.updated, 0)>>
       ELSE <<>>

\* dayActivities of one search result
DayActivities(issues, date) ==
    Flatten([i \in 1..Len(issues) |-> IssueActivities(issues[i], date)])

\* issuesWithUserActivity of one search result
IssuesWithUserActivity(issues, date) ==
    {issues[i].key : i \in {j \in 1..Len(issues) :
                              IssueActivities(issues[j], date) # <<>>}}

DaySummary(issues, date) ==
    LET dayActivities == DayActivities(issues, date) IN
    [issuesWorkedOn |-> Cardinality(IssuesWithUserActivity(issues, date)),
     transitionsMade |-> Len(OfType(dayActivities, "transition")),
     commentsMade |-> Len(OfType(dayActivities, "comment")),
     worklogsAdded |-> Len(OfType(dayActivities, "worklog")),
     totalTimeLogged |-> TotalTimeLogged(OfType(dayActivities, "worklog"))]

\* variant: the ids of the stored records carry the instant of the sync
DailyDataStamped(issues, date, syncedAt) ==
    LET dayActivities == DayActivities(issues, date) IN
    [exists |-> TRUE, syncedAt |-> syncedAt,
     activities |-> [i \in 1..Len(dayActivities) |->
                       [dayActivities[i] EXCEPT !.id = Append(@, syncedAt)]],
     summary |-> DaySummary(issues, date)]

\* dailyData written for one day
DailyData(issues, date, syncedAt) ==
    [exists |-> TRUE, syncedAt |-> syncedAt,
     activities |-> DayActivities(issues, date),
     summary |-> DaySummary(issues, date)]

\* `summary` of the range read and of the sync response
ActivitySummary(activities) ==
    [issuesWorkedOn |-> Cardinality(IssueKeys(activities)),
     transitionsMade |-> Len(OfType(activities, "transition")),
     commentsMade |-> Len(OfType(activities, "comment")),
     worklogsAdded |-> Len(OfType(activities, "worklog")),
     totalTimeLogged |-> TotalTimeLogged(OfType(activities, "worklog"))]

ActivityResponse(fromDate, toDate, synced, syncedAt, activities, summary) ==
    [from |-> fromDate, to |-> toDate, synced |-> synced, syncedAt |-> syncedAt,
     issues |-> OfType(activities, "issue"),
     transitions |-> OfType(activities, "transition"),
     comments |-> OfType(activities, "comment"),
     worklogs |-> OfType(activities, "worklog"),
     summary |-> summary]

ErrorResponse(message) == [error |-> message]

\* variant: the JIRA check that does not look at the account id
JiraNotAuthenticatedNoAccount(config) ==
    \/ ~Truthy(config.jira.domain)
    \/ ~Truthy(config.jira.email)
    \/ ~Truthy(config.jira.apiToken)

\* "!config.jira.domain || !config.jira.email || !config.jira.apiToken || !config.jira.accountId"
JiraNotAuthenticated(config) ==
    \/ ~Truthy(config.jira.domain)
    \/ ~Truthy(config.jira.email)
    \/ ~Truthy(config.jira.apiToken)
    \/ ~Truthy(config.jira.accountId)

\* allActivities of the range read: the stored records of every date that
\* has a blob, in the order of the dates
RECURSIVE CachedActivities(_)
CachedActivities(dates) ==
    IF dates = <<>> THEN <<>>
    ELSE (IF getJiraDailyData(dates[1]).exists
          THEN getJiraDailyData(dates[1]).activities ELSE <<>>)
         \o CachedActivities(Tail(dates))

\* latestSyncedAt of the range read
RECURSIVE LatestSyncedAt(_, _)
LatestSyncedAt(dates, latest) ==
    IF dates = <<>> THEN latest
    ELSE LET cachedData == getJiraDailyData(dates[1]) IN
         LatestSyncedAt(Tail(dates),
             IF cachedData.exists
                /\ (latest = NullTime
                    \/ (cachedData.syncedAt # NullTime /\ cachedData.syncedAt > latest))
             THEN cachedData.syncedAt ELSE latest)

\* the negation of "!allSynced || allActivities.length === 0"
RangeUsable(dates) ==
    /\ \A i \in 1..Len(dates) : getJiraDailyData(dates[i]).exists
    /\ CachedActivities(dates) # <<>>

\* body of the GET /jira/activity response
JiraActivityResponse(fromDate, toDate) ==
    LET dates == GenerateDates(tz, fromDate, toDate)
        allActivities == DedupeById(CachedActivities(dates))
    IN IF ~RangeUsable(dates)
       THEN ActivityResponse(fromDate, toDate, FALSE, NullTime, <<>>, EmptySummary)
       ELSE ActivityResponse(fromDate, toDate, TRUE,
                             LatestSyncedAt(dates, NullTime), allActivities,
                             ActivitySummary(allActivities))

\* variant: the range read also feeds what it read to the rolling cache
JiraActivityCaching(fromDate, toDate) ==
    /\ IF JiraNotAuthenticated(getConfig)
       THEN /\ Respond("GET /jira/activity", [from |-> fromDate, to |-> toDate],
                       401, ErrorResponse("Not authenticated"))
            /\ UNCHANGED <<jiraCacheFile, jiraCacheDefault>>
       ELSE /\ Respond("GET /jira/activity", [from |-> fromDate, to |-> toDate],
                       200, JiraActivityResponse(fromDate, toDate))
            /\ addJiraActivities(
                  CachedActivities(GenerateDates(tz, fromDate, toDate)))
    /\ UNCHANGED <<now, pending, githubCacheFile, githubCacheDefault, inserted,
                   earlier, configFile, tz, jiraDaily, reportVars, writable>>

\* GET /jira/activity
JiraActivity(fromDate, toDate) ==
    /\ IF JiraNotAuthenticated(getConfig)
       THEN Respond("GET /jira/activity", [from |-> fromDate, to |-> toDate],
                    401, ErrorResponse("Not authenticated"))
       ELSE Respond("GET /jira/activity", [from |-> fromDate, to |-> toDate],
                    200, JiraActivityResponse(fromDate, toDate))
    /\ UNCHANGED <<now, cacheVars, configFile, tz, jiraDaily, reportVars, writable>>

\* index of the first upstream search that throws, 0 if none does
FirstFailure(upstream) ==
    IF \E i \in 1..Len(upstream) : upstream[i].throws
    THEN CHOOSE i \in 1..Len(upstream) :
             /\ upstream[i].throws
             /\ \A j \in 1..(i - 1) : ~upstream[j].throws
    ELSE 0

\* variant: a day's write keeps the stored records the search did not return
RECURSIVE SyncedDaysMerging(_, _, _, _)
SyncedDaysMerging(store, dates, upstream, n) ==
    IF n = 0 THEN store
    ELSE LET before == SyncedDaysMerging(store, dates, upstream, n - 1)
             written == DailyData(upstream[n].issues, dates[n], now)
             stale == SelectSeq(before[dates[n]].activities,
                                LAMBDA a : a.id \notin Ids(written.activities))
         IN saveJiraDailyData(before, dates[n],
                [written EXCEPT !.activities = written.activities \o stale])

\* the per-day store after the first n dates were synced in order
RECURSIVE SyncedDays(_, _, _, _)
SyncedDays(store, dates, upstream, n) ==
    IF n = 0 THEN store
    ELSE saveJiraDailyData(SyncedDays(store, dates, upstream, n - 1), dates[n],
                           DailyData(upstream[n].issues, dates[n], now))

\* allActivities of the sync: every day's records, concatenated
SyncedActivities(dates, upstream) ==
    Flatten([i \in 1..Len(dates) |-> DayActivities(upstream[i].issues, dates[i])])

\* the searches the sync issued: one per date, up to the n-th
SearchCalls(dates, upstream, n) ==
    [i \in 1..n |-> [api |-> "jira/search", date |-> dates[i],
                     outcome |-> upstream[i]]]

\* POST /jira/sync; upstream[i] is the outcome of the search for the i-th date
JiraSync(fromDate, toDate, upstream) ==
    LET dates == GenerateDates(tz, fromDate, toDate)
        failure == FirstFailure(upstream)
        allActivities == SyncedActivities(dates, upstream)
        req == [from |-> fromDate, to |-> toDate]
    IN
    /\ Len(upstream) = Len(dates)
    /\ IF JiraNotAuthenticated(getConfig)
       THEN /\ Respond("POST /jira/sync", req, 401, ErrorResponse("Not authenticated"))
            /\ UNCHANGED <<jiraDaily, jiraCacheFile, jiraCacheDefault>>
       ELSE IF ~writable
       THEN \* the first write throws inside the try block: the write of the
            \* first day, or of the rolling cache when the range has no day
            /\ RespondAfter("POST /jira/sync", req, 500,
                            ErrorResponse(IF failure = 1 THEN "upstream"
                                          ELSE "storage"),
                            SearchCalls(dates, upstream,
                                        IF dates = <<>> THEN 0 ELSE 1))
            /\ jiraCacheDefault' =
                 IF dates = <<>> /\ ~jiraCacheFile.exists
                 THEN MergeActivities(getJiraCache, <<>>, now)
                 ELSE jiraCacheDefault
            /\ UNCHANGED <<jiraDaily, jiraCacheFile>>
       ELSE IF failure # 0
       THEN /\ jiraDaily' = SyncedDays(jiraDaily, dates, upstream, failure - 1)
            /\ RespondAfter("POST /jira/sync", req, 500, ErrorResponse("upstream"),
                            SearchCalls(dates, upstream, failure))
            /\ UNCHANGED <<jiraCacheFile, jiraCacheDefault>>
       ELSE /\ jiraDaily' = SyncedDays(jiraDaily, dates, upstream, Len(dates))
            /\ addJiraActivities(allActivities)
            /\ RespondAfter("POST /jira/sync", req, 200,
                            ActivityResponse(fromDate, toDate, TRUE,
                                IF dates = <<>> THEN NullTime ELSE now,
                                allActivities, ActivitySummary(allActivities)),
                            SearchCalls(dates, upstream, Len(dates)))
    /\ UNCHANGED <<now, pending, githubCacheFile, githubCacheDefault, inserted,
                   configFile, tz, reportVars, writable>>

----------------------------------------------------------------------------
(* The JIRA page of the UI *)

\* "Remove duplicate issues": one pass over the list; a record that is not an
\* issue is kept, an issue is kept unless its issueKey was seen earlier
RemoveDuplicateIssues(activities) ==
    LET indexed == [i \in 1..Len(activities) |->
                       [index |-> i, a |-> activities[i]]]
        kept == SelectSeq(indexed, LAMBDA x :
                    \/ x.a.type # "issue"
                    \/ \A j \in 1..(x.index - 1) :
                          activities[j].issueKey # x.a.issueKey)
    IN [k \in 1..Len(kept) |-> kept[k].a]

\* fetchActivity: the list the page shows for a synced response `data`
FetchActivity(data) ==
    RemoveDuplicateIssues(
        SortByDateDesc(data.issues \o data.transitions \o data.comments
                       \o data.worklogs))

----------------------------------------------------------------------------
(* Report builder and notes endpoints *)

\* the UTC offset in force at an instant
LocalOffset(zone, instant) ==
    IF instant < zone.at THEN zone.before ELSE zone.after

\* the instant of a wall-clock time; a wall-clock time that is skipped or
\* repeated by the transition is read with the offset in force before it
FromWall(zone, wall) ==
    IF wall - zone.before < zone.at THEN wall - zone.before
    ELSE IF wall - zone.after >= zone.at THEN wall - zone.after
    ELSE wall - zone.before

\* d.setHours(0, 0, 0, 0): midnight of the local day of the instant
StartOfLocalDay(zone, instant) ==
    LET wall == instant + LocalOffset(zone, instant) IN
    FromWall(zone, wall - (wall % HoursPerDay))

\* d.setHours(23, 59, 59, 999): the last whole hour of the local day
EndOfLocalDay(zone, instant) ==
    LET wall == instant + LocalOffset(zone, instant) IN
    FromWall(zone, wall - (wall % HoursPerDay) + HoursPerDay - 1)

\* githubActivities: the cached records from rangeStart to rangeEnd
GithubActivitiesOfRange(fromDate, toDate) ==
    SelectSeq(getGitHubCache.activities,
              LAMBDA a : /\ a.date >= StartOfLocalDay(tz, ParseDate(fromDate))
                         /\ a.date <= EndOfLocalDay(tz, ParseDate(toDate)))

\* allJiraActivities: the records of every date walked, concatenated
RECURSIVE AllJiraActivities(_)
AllJiraActivities(dates) ==
    IF dates = <<>> THEN <<>>
    ELSE getJiraDailyData(dates[1]).activities \o AllJiraActivities(Tail(dates))

\* rangeNotes: the notes whose updatedAt has a UTC date in fromDate..toDate
RangeNotes(fromDate, toDate) ==
    SelectSeq(getNotes, LAMBDA n : /\ IsoDate(n.updatedAt) >= fromDate
                                   /\ IsoDate(n.updatedAt) <= toDate)

\* the `jira` object of a summary
JiraStats(allJiraActivities) ==
    [issuesWorkedOn |-> Len(OfType(allJiraActivities, "issue")),
     transitions |-> Len(OfType(allJiraActivities, "transition")),
     comments |-> Len(OfType(allJiraActivities, "comment")),
     worklogs |-> Len(OfType(allJiraActivities, "worklog")),
     timeLogged |-> TotalTimeLogged(OfType(allJiraActivities, "worklog")),
     activities |-> allJiraActivities]

\* the `github` object of a summary
GithubStats(githubActivities) ==
    [commits |-> Len(OfType(githubActivities, "commit")),
     pullRequests |-> Len(OfType(githubActivities, "pr")),
     reviews |-> Len(OfType(githubActivities, "review")),
     activities |-> githubActivities]

\* the summary object both report endpoints build; aiReport is never assigned
Summary(fromDate, toDate, generatedAt, aiReportStructured) ==
    LET github == GithubStats(GithubActivitiesOfRange(fromDate, toDate))
        rangeNotes == RangeNotes(fromDate, toDate)
    IN [exists |-> TRUE, from |-> fromDate, to |-> toDate, date |-> fromDate,
        generatedAt |-> generatedAt,
        github |-> github,
        jira |-> JiraStats(AllJiraActivities(GenerateDates(tz, fromDate, toDate))),
        notes |-> [count |-> Len(rangeNotes), items |-> rangeNotes],
        aiReport |-> Null,
        aiReportStructured |-> aiReportStructured,
        commits |-> github.commits, pullRequests |-> github.pullRequests,
        reviews |-> github.reviews, aiSummary |-> Null,
        activities |-> github.activities]

\* GET /summary/daily
SummaryDaily(fromDate, toDate) ==
    LET req == [from |-> fromDate, to |-> toDate] IN
    /\ IF fromDate = toDate /\ getDailySummary(fromDate).exists
       THEN Respond("GET /summary/daily", req, 200, getDailySummary(fromDate))
       ELSE Respond("GET /summary/daily", req, 200,
                    Summary(fromDate, toDate, NullTime, Null))
    /\ UNCHANGED <<now, cacheVars, configFile, tz, jiraDaily, reportVars, writable>>

\* totalActivity of POST /summary/generate
TotalActivity(summary) ==
    summary.github.commits + summary.github.pullRequests + summary.github.reviews
    + summary.jira.issuesWorkedOn + summary.jira.transitions
    + summary.jira.comments + summary.jira.worklogs + summary.notes.count

\* what the language model call can come to: a parsable report, a content
\* that does not parse, a response that is not ok, a thrown error
LlmOutcomes == {"report", "unparsable", "not ok", "throws"}

\* variant: a content that does not parse is kept as the report
StructuredReportRaw(asked, llm) ==
    IF asked /\ llm \in {"report", "unparsable"} THEN llm ELSE Null

\* aiReportStructured: assigned only by JSON.parse of the content of an ok
\* response
StructuredReport(asked, llm) ==
    IF asked /\ llm = "report" THEN "report" ELSE Null

\* POST /summary/generate; llm is the outcome of the language model call when
\* the handler makes it
SummaryGenerate(fromDate, toDate, llm) ==
    LET req == [from |-> fromDate, to |-> toDate]
        isRange == Len(GenerateDates(tz, fromDate, toDate)) > 1
        asked == /\ Truthy(getConfig.openrouter.apiKey)
                 /\ TotalActivity(Summary(fromDate, toDate, now, Null)) > 0
        calls == IF asked
                 THEN <<[api |-> "openrouter/chat", date |-> fromDate,
                         outcome |-> llm]>>
                 ELSE <<>>
        summary == Summary(fromDate, toDate, now, StructuredReport(asked, llm))
    IN
    /\ asked \/ llm = "report"   \* no call made: its outcome is immaterial
    /\ IF isRange
       THEN /\ RespondAfter("POST /summary/generate", req, 200, summary, calls)
            /\ UNCHANGED <<summariesFile, summariesDefault>>
       ELSE IF writable
       THEN /\ saveDailySummary(summary)
            /\ RespondAfter("POST /summary/generate", req, 200, summary, calls)
       ELSE \* store.summaries[date] = summary is done, then the write throws
            /\ EscapesAfter("POST /summary/generate", req, calls)
            /\ summariesDefault' =
                 IF summariesFile.exists THEN summariesDefault
                 ELSE [getSummaries EXCEPT ![summary.date] = summary]
            /\ UNCHANGED summariesFile
    /\ UNCHANGED <<now, cacheVars, configFile, tz, jiraDaily, notesFile,
                   notesDefault, writable>>

\* crypto.randomUUID(): an id no stored note has
RandomUUID == <<"uuid-1", "uuid-2", "uuid-3", "uuid-4">>[Len(getNotes) + 1]

\* the note POST /notes builds from the body
NoteOf(body) ==
    [id |-> IF Truthy(Field(body, "id")) THEN body.id ELSE RandomUUID,
     title |-> IF Truthy(Field(body, "title")) THEN body.title ELSE "Untitled",
     content |-> IF Truthy(Field(body, "content")) THEN body.content ELSE "",
     createdAt |-> IF Truthy(Field(body, "createdAt")) THEN body.createdAt
                   ELSE now,
     updatedAt |-> now,
     tags |-> IF Truthy(Field(body, "tags")) THEN body.tags ELSE "[]"]

\* POST /notes
PostNote(body) ==
    LET note == NoteOf(body) IN
    /\ IF writable
       THEN /\ saveNote(note)
            /\ Respond("POST /notes", body, 200, note)
       ELSE \* the store object is changed, then the write throws
            /\ Escapes("POST /notes", body)
            /\ notesDefault' = IF notesFile.exists THEN notesDefault
                               ELSE NotesWith(getNotes, note)
            /\ UNCHANGED notesFile
    /\ UNCHANGED <<now, cacheVars, configFile, tz, jiraDaily, summariesFile,
                   summariesDefault, writable>>

----------------------------------------------------------------------------
(* GitHub activity and JIRA projects *)

\* "!token || !config.github.username"
GithubNotAuthenticated(config) ==
    \/ ~Truthy(config.github.token)
    \/ ~Truthy(config.github.username)

\* "!config.jira.domain || !config.jira.email || !config.jira.apiToken"
JiraProjectsNotAuthenticated(config) ==
    \/ ~Truthy(config.jira.domain)
    \/ ~Truthy(config.jira.email)
    \/ ~Truthy(config.jira.apiToken)

\* githubFetch(...).catch(() => ({ items: [] }))
ItemsOf(outcome) == IF outcome.throws THEN <<>> ELSE outcome.items

\* variant: one search that throws empties the three results
FanOutAllOrNothing(commits, prs, reviews) ==
    IF commits.throws \/ prs.throws \/ reviews.throws
    THEN [commits |-> <<>>, prs |-> <<>>, reviews |-> <<>>]
    ELSE [commits |-> commits.items, prs |-> prs.items, reviews |-> reviews.items]

\* [commitsResult, prsResult, reviewsResult] of the Promise.all: each search
\* has its own catch
FanOut(commits, prs, reviews) ==
    [commits |-> ItemsOf(commits), prs |-> ItemsOf(prs),
     reviews |-> ItemsOf(reviews)]

\* the records mapped from the three search results; a review of a pull
\* request the user opened is dropped
GithubCommits(result) ==
    [i \in 1..Len(result) |->
        [id |-> <<"sha", result[i].sha>>, type |-> "commit",
         title |-> result[i].message, date |-> result[i].date]]

GithubPullRequests(result) ==
    [i \in 1..Len(result) |->
        [id |-> <<"pr", result[i].id>>, type |-> "pr",
         title |-> result[i].title, date |-> result[i].updated_at]]

GithubReviews(result, username) ==
    LET others == SelectSeq(result, LAMBDA r : r.login # username) IN
    [i \in 1..Len(others) |->
        [id |-> <<"review", others[i].id>>, type |-> "review",
         title |-> others[i].title, date |-> others[i].updated_at]]

\* the three searches GET /github/activity issues
GithubCalls(since, commits, prs, reviews) ==
    <<[api |-> "github/search/commits", date |-> IsoDate(since), outcome |-> commits],
      [api |-> "github/search/issues author", date |-> IsoDate(since), outcome |-> prs],
      [api |-> "github/search/issues reviewed-by", date |-> IsoDate(since),
       outcome |-> reviews]>>

\* body of a GET /github/activity response
GithubActivityResponse(activities, fromCache, lastSync) ==
    [commits |-> OfType(activities, "commit"),
     pullRequests |-> OfType(activities, "pr"),
     reviews |-> OfType(activities, "review"),
     fromCache |-> fromCache, lastSync |-> lastSync]

\* "cacheAge < 5 * 60 * 1000": the cache was written within this hour
CacheIsFresh(cache) == cache.lastSync # NullTime /\ now - cache.lastSync < 1

\* GET /github/activity; commits, prs and reviews are the outcomes of the
\* three upstream searches when the handler makes them
GithubActivity(since, useCache, commits, prs, reviews) ==
    LET config == getConfig
        req == [since |-> since, cache |-> useCache]
        cache == getGitHubCache
        results == FanOut(commits, prs, reviews)
        allActivities == GithubCommits(results.commits)
                         \o GithubPullRequests(results.prs)
                         \o GithubReviews(results.reviews, config.github.username)
    IN
    /\ IF GithubNotAuthenticated(config)
       THEN /\ Respond("GET /github/activity", req, 401,
                       ErrorResponse("Not authenticated"))
            /\ UNCHANGED <<githubCacheFile, githubCacheDefault>>
       ELSE IF useCache /\ CacheIsFresh(cache)
       THEN /\ Respond("GET /github/activity", req, 200,
                       GithubActivityResponse(
                           SelectSeq(cache.activities, LAMBDA a : a.date >= since),
                           TRUE, cache.lastSync))
            /\ UNCHANGED <<githubCacheFile, githubCacheDefault>>
       ELSE IF ~writable
       THEN \* the cache object is changed, then the write throws in the try
            /\ RespondAfter("GET /github/activity", req, 500,
                            ErrorResponse("storage"),
                            GithubCalls(since, commits, prs, reviews))
            /\ githubCacheDefault' =
                 IF githubCacheFile.exists THEN githubCacheDefault
                 ELSE MergeActivities(cache, allActivities, now)
            /\ UNCHANGED githubCacheFile
       ELSE /\ addGitHubActivities(allActivities)
            /\ RespondAfter("GET /github/activity", req, 200,
                            GithubActivityResponse(allActivities, FALSE, now),
                            GithubCalls(since, commits, prs, reviews))
    /\ UNCHANGED <<now, pending, jiraCacheFile, jiraCacheDefault, inserted, earlier,
                   configFile, tz, jiraDaily, reportVars, writable>>

\* GET /jira/projects; outcome is the outcome of the upstream project search
\* when the handler makes it
JiraProjects(outcome) ==
    /\ IF JiraProjectsNotAuthenticated(getConfig)
       THEN Respond("GET /jira/projects", <<>>, 401,
                    ErrorResponse("Not authenticated"))
       ELSE IF outcome.throws
       THEN RespondAfter("GET /jira/projects", <<>>, 500, ErrorResponse("upstream"),
                         <<[api |-> "jira/project/search", date |-> NullTime,
                            outcome |-> outcome]>>)
       ELSE RespondAfter("GET /jira/projects", <<>>, 200,
                         [projects |-> outcome.items],
                         <<[api |-> "jira/project/search", date |-> NullTime,
                            outcome |-> outcome]>>)
    /\ UNCHANGED <<now, cacheVars, configFile, tz, jiraDaily, reportVars, writable>>

----------------------------------------------------------------------------
(* Credential validation *)

\* variant: the credentials are stored before the upstream call is awaited
ReachesSaveAlways(outcome) == TRUE

\* saveConfig stands in the try block behind the awaited current-user call
ReachesSave(outcome) == ~outcome.throws

\* { valid: false, error }
InvalidResponse(message) == [valid |-> FALSE, error |-> message]

\* POST /github/validate; outcome is the outcome of GET /user when the
\* handler calls it
PostGithubValidate(body, outcome) ==
    LET token == Field(body, "token")
        config == getConfig
        calls == <<[api |-> "github/user", date |-> NullTime, outcome |-> outcome]>>
    IN
    /\ IF ~Truthy(token)
       THEN /\ Respond("POST /github/validate", body, 400,
                       InvalidResponse("Token is required"))
            /\ UNCHANGED configFile
       ELSE /\ IF ReachesSave(outcome) /\ writable
               THEN saveConfig([github |->
                        Spread(config.github,
                               [token |-> token, username |-> outcome.login,
                                avatarUrl |-> outcome.avatar_url])])
               ELSE UNCHANGED configFile
            /\ IF outcome.throws \/ ~writable
               THEN RespondAfter("POST /github/validate", body, 401,
                                 InvalidResponse("Validation failed"), calls)
               ELSE RespondAfter("POST /github/validate", body, 200,
                                 [valid |-> TRUE, username |-> outcome.login,
                                  name |-> outcome.name,
                                  avatar_url |-> outcome.avatar_url], calls)
    /\ UNCHANGED <<now, cacheVars, tz, jiraDaily, reportVars, writable>>

\* POST /jira/validate; outcome is the outcome of GET /myself when the
\* handler calls it
PostJiraValidate(body, outcome) ==
    LET domain == Field(body, "domain")
        email == Field(body, "email")
        apiToken == Field(body, "apiToken")
        config == getConfig
        calls == <<[api |-> "jira/myself", date |-> NullTime, outcome |-> outcome]>>
    IN
    /\ IF ~Truthy(domain) \/ ~Truthy(email) \/ ~Truthy(apiToken)
       THEN /\ Respond("POST /jira/validate", body, 400,
                       InvalidResponse("All fields are required"))
            /\ UNCHANGED configFile
       ELSE /\ IF ReachesSave(outcome) /\ writable
               THEN saveConfig([jira |->
                        Spread(config.jira,
                               [domain |-> domain, email |-> email,
                                apiToken |-> apiToken,
                                displayName |-> outcome.displayName,
                                accountId |-> outcome.accountId])])
               ELSE UNCHANGED configFile
            /\ IF outcome.throws \/ ~writable
               THEN RespondAfter("POST /jira/validate", body, 401,
                                 InvalidResponse("Validation failed"), calls)
               ELSE RespondAfter("POST /jira/validate", body, 200,
                                 [valid |-> TRUE,
                                  displayName |-> outcome.displayName,
                                  accountId |-> outcome.accountId,
                                  emailAddress |-> outcome.emailAddress], calls)
    /\ UNCHANGED <<now, cacheVars, tz, jiraDaily, reportVars, writable>>

----------------------------------------------------------------------------
(* The clock *)

Tick ==
    /\ now < MaxClock
    /\ now' = now + 1
    /\ UNCHANGED <<cacheVars, configFile, httpVars, tz, jiraDaily, reportVars, writable>>

----------------------------------------------------------------------------
(* Rolling caches driven directly *)

NoRequest == [endpoint |-> "none", body |-> <<>>]
NoResponse == [endpoint |-> "none", status |-> 0, body |-> <<>>]

\* no single-day sync has run
NoEarlier == [calls |-> <<>>, bucket |-> NoDailyData]

\* a server process that has handled no request, with no per-day blob, no
\* summary and no note
InitServer ==
    /\ now = 0
    /\ request = NoRequest
    /\ response = NoResponse
    /\ jiraDaily = [d \in Days |-> NoDailyData]
    /\ upstreamCalls = <<>>
    /\ summariesFile = AbsentBlob(DEFAULT_SUMMARIES)
    /\ summariesDefault = DEFAULT_SUMMARIES
    /\ notesFile = AbsentBlob(DEFAULT_NOTES)
    /\ notesDefault = DEFAULT_NOTES
    /\ githubCacheDefault = DEFAULT_GITHUB_CACHE
    /\ jiraCacheDefault = DEFAULT_JIRA_CACHE
    /\ inserted = <<>>
    /\ earlier = NoEarlier
    /\ writable = TRUE
    /\ pending = [c \in Callers |-> NotCalled]

\* a fresh data directory, but for the config blob
InitBlobs ==
    /\ InitServer
    /\ githubCacheFile = AbsentBlob(DEFAULT_GITHUB_CACHE)
    /\ jiraCacheFile = AbsentBlob(DEFAULT_JIRA_CACHE)

\* the process was restarted on the data directory of an earlier run that
\* left both rolling caches written and empty
InitRestarted ==
    /\ InitServer
    /\ githubCacheFile = Blob([lastSync |-> 0, activities |-> <<>>])
    /\ jiraCacheFile = Blob([lastSync |-> 0, activities |-> <<>>])

InitStores ==
    /\ InitBlobs
    /\ configFile = AbsentBlob(DEFAULT_CONFIG)
    /\ tz = UTC

CallAddGitHubActivities ==
    \E batch \in SeqsUpTo(GitHubPool, MaxBatch) :
        /\ addGitHubActivities(batch)
        /\ UNCHANGED <<now, pending, jiraCacheFile, jiraCacheDefault, inserted, earlier, configFile,
                     httpVars, tz, jiraDaily, reportVars, writable>>

CallAddJiraActivities ==
    \E batch \in SeqsUpTo(JiraCachePool, MaxBatch) :
        /\ addJiraActivities(batch)
        /\ UNCHANGED <<now, pending, githubCacheFile, githubCacheDefault, inserted,
                     earlier, configFile, httpVars, tz, jiraDaily, reportVars, writable>>

NextCache == CallAddGitHubActivities \/ CallAddJiraActivities

SpecCache == InitStores /\ [][NextCache]_vars

----------------------------------------------------------------------------
(* The JIRA rolling cache with the history of what was inserted *)

\* CacheCap + 2 records with distinct ids and distinct timestamps, and a
\* changed upstream copy of record 1
InsertPool ==
    {JiraRecord(n, "s1", 10 * n) : n \in 1..(CacheCap + 2)}
    \cup {JiraRecord(1, "s2", 15)}

MaxInserts == CacheCap + 2

InsertActivities ==
    \E batch \in SeqsUpTo(InsertPool, MaxBatch) :
        /\ batch # <<>>
        /\ Len(inserted) + Len(batch) <= MaxInserts
        /\ addJiraActivities(batch)
        /\ inserted' = inserted \o batch
        /\ UNCHANGED <<now, pending, githubCacheFile, githubCacheDefault, earlier,
                     configFile, httpVars, tz, jiraDaily, reportVars, writable>>

NextInsert == InsertActivities \/ Tick

SpecInsert == InitStores /\ [][NextInsert]_vars

----------------------------------------------------------------------------
(* The config endpoints *)

\* values a request body can carry for the config fields it may name; the
\* placeholder reaches a body only in a response that is sent back
FieldValues ==
    [github |-> [token |-> {Null, "S1", "S2"}, username |-> {Null},
                 repositories |-> {"[]", "[a/b]"}],
     jira |-> [email |-> {Null}, apiToken |-> {Null, "S1"}],
     openrouter |-> [apiKey |-> {Null, "S1"},
                     model |-> {"anthropic/claude-haiku-4.5", "m2"}],
     preferences |-> [theme |-> {"dark", "light"}]]

\* JSON objects naming at most MaxBodyFields fields of a section
SectionBodies(sec) ==
    LET fields == DOMAIN FieldValues[sec]
        values == UNION {FieldValues[sec][k] : k \in fields}
    IN UNION {{b \in [F -> values] : \A k \in F : b[k] \in FieldValues[sec][k]} :
                F \in {G \in SUBSET fields : Cardinality(G) <= MaxBodyFields}}

\* the body of the last response, when `endpoint` sent it
ReadBack(endpoint) ==
    IF response.endpoint = endpoint THEN {response.body} ELSE {}

GithubBodies == SectionBodies("github")
JiraBodies == SectionBodies("jira")
OpenrouterBodies == SectionBodies("openrouter")
PreferencesBodies == SectionBodies("preferences")

\* POST /config bodies naming one section
ConfigBodies ==
    {("github" :> b) : b \in GithubBodies}
    \cup {("jira" :> b) : b \in JiraBodies}
    \cup {("openrouter" :> b) : b \in OpenrouterBodies}
    \cup {("preferences" :> b) : b \in PreferencesBodies}

CallPostConfig ==
    \E body \in ConfigBodies \cup ReadBack("GET /config") : PostConfig(body)

CallPostGithubConfig ==
    \E body \in GithubBodies \cup ReadBack("GET /github/config") :
        PostGithubConfig(body)

CallPostJiraConfig ==
    \E body \in JiraBodies \cup ReadBack("GET /jira/config") :
        PostJiraConfig(body)

CallPostConfigOpenrouter ==
    \E body \in OpenrouterBodies
                 \cup {r.openrouter : r \in ReadBack("GET /config")} :
        PostConfigOpenrouter(body)

NextConfig ==
    \/ GetConfig
    \/ GetGithubConfig
    \/ GetJiraConfig
    \/ CallPostConfig
    \/ CallPostGithubConfig
    \/ CallPostJiraConfig
    \/ CallPostConfigOpenrouter

SpecConfig == InitStores /\ [][NextConfig]_vars

----------------------------------------------------------------------------
(* The JIRA endpoints against an upstream that answers each day's search *)

\* issue 1 as upstream shows it on day 0: one status change that day
Issue1Day0 ==
    [id |-> 1, key |-> "K1", summary |-> "s1", updated |-> 10,
     histories |-> <<[id |-> 1, created |-> 10, items |-> <<"status">>]>>,
     comments |-> <<>>, worklogs |-> <<>>]

\* issue 1 as upstream shows it on day 1: a second status change that day
Issue1Day1 ==
    [id |-> 1, key |-> "K1", summary |-> "s1", updated |-> 34,
     histories |-> <<[id |-> 1, created |-> 10, items |-> <<"status">>],
                     [id |-> 2, created |-> 34, items |-> <<"assignee", "status">>]>>,
     comments |-> <<>>, worklogs |-> <<>>]

\* issue 2: reassigned, commented and worked on the whole of day 1
Issue2Day1 ==
    [id |-> 2, key |-> "K2", summary |-> "s2", updated |-> 34,
     histories |-> <<[id |-> 3, created |-> 34, items |-> <<"assignee">>]>>,
     comments |-> <<[id |-> 1, created |-> 34]>>,
     worklogs |-> <<[id |-> 1, started |-> 34, timeSpentSeconds |-> 3600]>>]

\* what a day's search can return: nothing, one issue, or both issues
SearchResults ==
    {<<>>, <<Issue1Day0>>, <<Issue1Day1>>, <<Issue2Day1>>,
     <<Issue1Day1, Issue2Day1>>}

\* the outcome of one upstream search: it throws, or returns issues
UpstreamOutcomes ==
    {[throws |-> TRUE, issues |-> <<>>]}
    \cup {[throws |-> FALSE, issues |-> q] : q \in SearchResults}

\* the config after POST /jira/validate succeeded
ConnectedConfig ==
    [DEFAULT_CONFIG EXCEPT !.jira.domain = "d", !.jira.email = "e",
                           !.jira.apiToken = "S1", !.jira.accountId = "acc"]

InitJira ==
    /\ InitRestarted
    /\ configFile \in {AbsentBlob(DEFAULT_CONFIG), Blob(ConnectedConfig)}
    /\ tz \in ServerZones

CallJiraActivity ==
    \E fromDate \in Days : \E toDate \in fromDate..MaxDay :
        JiraActivity(fromDate, toDate)

CallJiraSync ==
    \E fromDate \in Days : \E toDate \in fromDate..MaxDay :
        \E upstream \in [1..Len(GenerateDates(tz, fromDate, toDate))
                            -> UpstreamOutcomes] :
            /\ JiraSync(fromDate, toDate, upstream)
            /\ UNCHANGED earlier

NextJira == CallJiraActivity \/ CallJiraSync

SpecJira == InitJira /\ [][NextJira]_vars

----------------------------------------------------------------------------
(* The JIRA page's sync button: one day at a time, while time passes *)

\* the page's sync of one day; `earlier` keeps the upstream calls of the
\* request answered before it and the bucket of the day as the sync found it
CallJiraSyncDay ==
    \E date \in Days : \E upstream \in [1..1 -> UpstreamOutcomes] :
        /\ JiraSync(date, date, upstream)
        /\ earlier' = [calls |-> upstreamCalls, bucket |-> jiraDaily[date]]

NextDay == CallJiraSyncDay \/ Tick

SpecDay == InitJira /\ [][NextDay]_vars

----------------------------------------------------------------------------
(* The report page: syncs, reports of one day or of a range, notes *)

WithApiKey == [ConnectedConfig EXCEPT !.openrouter.apiKey = "S2"]

\* a commit of day 0 in the GitHub rolling cache
CachedCommit ==
    [id |-> <<"sha", 1>>, type |-> "commit", title |-> "t1", date |-> 10]

InitReport ==
    /\ InitServer
    /\ jiraCacheFile = Blob([lastSync |-> 0, activities |-> <<>>])
    /\ githubCacheFile = Blob([lastSync |-> 0, activities |-> <<CachedCommit>>])
    /\ configFile \in {Blob(ConnectedConfig), Blob(WithApiKey)}
    /\ tz \in AllZones

\* the upstream after day 1: every search finds issue 1, changed on both days
FoundOutcomes == {[throws |-> FALSE, issues |-> <<Issue1Day1>>]}

CallSummaryDaily ==
    \E fromDate \in Days : \E toDate \in fromDate..MaxDay :
        SummaryDaily(fromDate, toDate)

CallSummaryGenerate ==
    \E fromDate \in Days : \E toDate \in fromDate..MaxDay :
        \E llm \in LlmOutcomes : SummaryGenerate(fromDate, toDate, llm)

\* request bodies of POST /notes: a note of a given id, or one without id
NoteBodies == {[id |-> "note-1", content |-> "a"], [content |-> "a"]}

CallPostNote ==
    \E body \in NoteBodies :
        /\ Len(getNotes) < MaxNotes \/ NoteOf(body).id \in Ids(getNotes)
        /\ PostNote(body)

\* a sync whose searches all answer
CallJiraSyncFound ==
    \E fromDate \in Days : \E toDate \in fromDate..MaxDay :
        \E upstream \in [1..Len(GenerateDates(tz, fromDate, toDate))
                            -> FoundOutcomes] :
            /\ JiraSync(fromDate, toDate, upstream)
            /\ UNCHANGED earlier

NextReport ==
    \/ CallJiraSyncFound
    \/ CallSummaryDaily
    \/ CallSummaryGenerate

SpecReport == InitReport /\ [][NextReport]_vars

----------------------------------------------------------------------------
(* The handlers that write, on a data directory that may refuse writes *)

\* the data directory stops accepting writes (disk full, permissions)
DiskFails ==
    /\ writable
    /\ writable' = FALSE
    /\ UNCHANGED <<now, cacheVars, configFile, httpVars, tz, jiraDaily, reportVars>>

DiskRecovers ==
    /\ ~writable
    /\ writable' = TRUE
    /\ UNCHANGED <<now, cacheVars, configFile, httpVars, tz, jiraDaily, reportVars>>

\* a sync of today, whose search throws or finds issue 1
CallJiraSyncToday ==
    \E upstream \in [1..1 -> FoundOutcomes
                               \cup {[throws |-> TRUE, issues |-> <<>>]}] :
        /\ JiraSync(IsoDate(now), IsoDate(now), upstream)
        /\ UNCHANGED earlier

\* the report of one day is generated, and stored
CallSummaryGenerateDay ==
    \E date \in Days : \E llm \in LlmOutcomes :
        SummaryGenerate(date, date, llm)

\* the settings page saves the theme
CallPostConfigTheme == PostConfig([preferences |-> [theme |-> "light"]])

\* the GitHub page saves a token
CallPostGithubConfigToken == PostGithubConfig([token |-> "S1"])

NextDisk ==
    \/ DiskFails
    \/ DiskRecovers
    \/ CallPostNote
    \/ CallPostConfigTheme
    \/ CallPostGithubConfigToken
    \/ CallSummaryGenerateDay
    \/ CallJiraSyncToday

SpecDisk == InitJira /\ [][NextDisk]_vars

----------------------------------------------------------------------------
(* The integration endpoints under configs that lack credentials *)

\* every GitHub and JIRA credential is stored
FullConfig ==
    [ConnectedConfig EXCEPT !.github.token = "S1", !.github.username = "u"]

\* the credentials a config can lack
Credentials ==
    {<<"github", "token">>, <<"github", "username">>, <<"jira", "domain">>,
     <<"jira", "email">>, <<"jira", "apiToken">>, <<"jira", "accountId">>}

Without(config, credential) ==
    [config EXCEPT ![credential[1]][credential[2]] = Null]

InitAuth ==
    /\ InitRestarted
    /\ configFile \in {AbsentBlob(DEFAULT_CONFIG), Blob(FullConfig)}
                      \cup {Blob(Without(FullConfig, c)) : c \in Credentials}
    /\ tz = UTC

\* outcomes of the three GitHub searches
CommitSearches ==
    {[throws |-> TRUE, items |-> <<>>],
     [throws |-> FALSE, items |-> <<[sha |-> 1, message |-> "t1", date |-> 10]>>]}

PullRequestSearches ==
    {[throws |-> FALSE, items |-> <<>>],
     [throws |-> FALSE, items |-> <<[id |-> 1, title |-> "p1", updated_at |-> 12]>>]}

ReviewSearches ==
    {[throws |-> FALSE,
      items |-> <<[id |-> 2, title |-> "p2", updated_at |-> 14, login |-> "v"]>>],
     [throws |-> FALSE,
      items |-> <<[id |-> 1, title |-> "p1", updated_at |-> 12, login |-> "u"]>>]}

\* when the handler makes no search, the outcomes are immaterial
CallGithubActivity ==
    \E since \in {now - HoursPerDay, 12} : \E useCache \in BOOLEAN :
        \E commits \in CommitSearches : \E prs \in PullRequestSearches :
            \E reviews \in ReviewSearches :
                /\ GithubNotAuthenticated(getConfig) \/ (useCache /\ CacheIsFresh(getGitHubCache))
                      => /\ commits.throws
                         /\ prs.items = <<>>
                         /\ reviews.items[1].login = "u"
                /\ GithubActivity(since, useCache, commits, prs, reviews)

ProjectSearches ==
    {[throws |-> TRUE, items |-> <<>>], [throws |-> FALSE, items |-> <<"P1">>]}

\* when the handler makes no search, the outcome is immaterial
CallJiraProjects ==
    \E outcome \in ProjectSearches :
        /\ JiraProjectsNotAuthenticated(getConfig) => outcome.throws
        /\ JiraProjects(outcome)

NextAuth ==
    \/ CallGithubActivity
    \/ CallJiraProjects
    \/ CallJiraActivity
    \/ CallJiraSyncFound
    \/ Tick

SpecAuth == InitAuth /\ [][NextAuth]_vars

----------------------------------------------------------------------------
(* The GitHub page: fetches against an upstream whose searches may fail *)

InitGithub ==
    /\ InitBlobs
    /\ configFile = Blob(FullConfig)
    /\ tz = UTC

\* a search that throws (network error, rate limit, 5xx)
FailedSearch == [throws |-> TRUE, items |-> <<>>]

\* each of the three searches answers or throws on its own
CallGithubFetch ==
    \E since \in {now - HoursPerDay, 12} : \E useCache \in BOOLEAN :
        \E commits \in CommitSearches :
            \E prs \in PullRequestSearches \cup {FailedSearch} :
                \E reviews \in ReviewSearches \cup {FailedSearch} :
                    /\ (useCache /\ CacheIsFresh(getGitHubCache))
                          => /\ commits.throws
                             /\ prs.throws
                             /\ reviews.throws
                    /\ GithubActivity(since, useCache, commits, prs, reviews)

NextGithub == CallGithubFetch \/ Tick

SpecGithub == InitGithub /\ [][NextGithub]_vars

----------------------------------------------------------------------------
(* The connect forms of the settings page *)

InitValidate ==
    /\ InitBlobs
    /\ configFile \in {AbsentBlob(DEFAULT_CONFIG), Blob(FullConfig)}
    /\ tz = UTC

\* bodies of POST /github/validate: no token, an empty one, a new token
GithubValidateBodies == {<<>>, [token |-> ""], [token |-> "S2"]}

\* GET /user throws (bad token, network), or returns the user
GithubUsers ==
    {[throws |-> TRUE, login |-> Undefined, name |-> Undefined,
      avatar_url |-> Undefined],
     [throws |-> FALSE, login |-> "w", name |-> "n", avatar_url |-> "a"]}

\* bodies of POST /jira/validate: the three fields, or two of them
JiraValidateForm == [domain |-> "d2", email |-> "e2", apiToken |-> "S3"]

JiraValidateBodies ==
    {[k \in D |-> JiraValidateForm[k]] :
        D \in {E \in SUBSET (DOMAIN JiraValidateForm) : Cardinality(E) >= 2}}

\* GET /myself throws, or returns the user
JiraUsers ==
    {[throws |-> TRUE, displayName |-> Undefined, accountId |-> Undefined,
      emailAddress |-> Undefined],
     [throws |-> FALSE, displayName |-> "n", accountId |-> "acc2",
      emailAddress |-> "e2"]}

\* when the handler makes no upstream call, its outcome is immaterial
CallPostGithubValidate ==
    \E body \in GithubValidateBodies : \E outcome \in GithubUsers :
        /\ ~Truthy(Field(body, "token")) => outcome.throws
        /\ PostGithubValidate(body, outcome)

CallPostJiraValidate ==
    \E body \in JiraValidateBodies : \E outcome \in JiraUsers :
        /\ DOMAIN body # DOMAIN JiraValidateForm => outcome.throws
        /\ PostJiraValidate(body, outcome)

NextValidate ==
    \/ CallPostGithubValidate
    \/ CallPostJiraValidate
    \/ CallPostGithubConfigToken
    \/ CallPostConfigTheme

SpecValidate == InitValidate /\ [][NextValidate]_vars

----------------------------------------------------------------------------
(* Two requests that feed the JIRA rolling cache at the same time *)

\* no cache file, an empty one, or one that holds a record
InitOverlap ==
    /\ InitServer
    /\ githubCacheFile = AbsentBlob(DEFAULT_GITHUB_CACHE)
    /\ jiraCacheFile \in
         {AbsentBlob(DEFAULT_JIRA_CACHE),
          Blob([lastSync |-> 0, activities |-> <<>>]),
          Blob([lastSync |-> 0, activities |-> <<JiraRecord(3, "s1", 30)>>])}
    /\ configFile = Blob(ConnectedConfig)
    /\ tz = UTC

\* what the two requests hand over: records of their own, or issue 1 both
OverlapBatches ==
    [a |-> {<<JiraRecord(1, "s1", 10)>>},
     b |-> {<<JiraRecord(2, "s1", 20)>>, <<JiraRecord(1, "s2", 20)>>}]

CallBeginAddJiraActivities ==
    \E c \in Callers : \E activities \in OverlapBatches[c] :
        BeginAddJiraActivities(c, activities)

CallFinishAddJiraActivities ==
    \E c \in Callers : FinishAddJiraActivities(c)

NextOverlap ==
    \/ CallBeginAddJiraActivities
    \/ CallFinishAddJiraActivities
    \/ Tick

SpecOverlap == InitOverlap /\ [][NextOverlap]_vars

----------------------------------------------------------------------------
(* The date walk on its own, over ranges around a clock change *)

WalkDays == (0 - MaxWalkDay)..MaxWalkDay

InitWalk ==
    /\ InitBlobs
    /\ configFile = AbsentBlob(DEFAULT_CONFIG)
    /\ tz \in AllZones

\* the loop that fills `dates`, run on one range
CallGenerateDates ==
    \E fromDate \in WalkDays : \E toDate \in fromDate..MaxWalkDay :
        /\ Respond("generate dates", [from |-> fromDate, to |-> toDate], 200,
                   GenerateDates(tz, fromDate, toDate))
        /\ UNCHANGED <<now, cacheVars, configFile, tz, jiraDaily, reportVars,
                       writable>>

NextWalk == CallGenerateDates

SpecWalk == InitWalk /\ [][NextWalk]_vars

----------------------------------------------------------------------------
(* Properties of the config store *)

RealSecrets == {"S1", "S2"}

StoredSecrets(config) ==
    <<config.github.token, config.jira.apiToken, config.openrouter.apiKey>>

\* every real secret stored before the step is stored after it
SecretsKept ==
    \A i \in 1..3 :
        StoredSecrets(getConfig)[i] \in RealSecrets =>
            StoredSecrets(getConfig')[i] = StoredSecrets(getConfig)[i]

\* C3: for every config write endpoint, writing back unchanged the body read
\* from the matching display endpoint leaves every stored real secret as it
\* was; the placeholder never replaces it.
C3_MaskingRoundTrip ==
    [][/\ (response.endpoint = "GET /config" /\ PostConfig(response.body))
            => SecretsKept
       /\ (response.endpoint = "GET /github/config"
            /\ PostGithubConfig(response.body)) => SecretsKept
       /\ (response.endpoint = "GET /jira/config"
            /\ PostJiraConfig(response.body)) => SecretsKept
       /\ (response.endpoint = "GET /config"
            /\ PostConfigOpenrouter(response.body.openrouter)) => SecretsKept]_vars

\* C4: GET /config, GET /github/config and GET /jira/config show every stored
\* real secret as the placeholder: the response does not depend on the value
\* of the secret, and no response carries a real secret.
C4_DisplayMasksSecrets ==
    LET c == getConfig IN
    /\ \A s \in RealSecrets :
          /\ c.github.token \in RealSecrets =>
                /\ ConfigResponse([c EXCEPT !.github.token = s]) = ConfigResponse(c)
                /\ GithubConfigResponse([c EXCEPT !.github.token = s])
                     = GithubConfigResponse(c)
          /\ c.jira.apiToken \in RealSecrets =>
                /\ ConfigResponse([c EXCEPT !.jira.apiToken = s]) = ConfigResponse(c)
                /\ JiraConfigResponse([c EXCEPT !.jira.apiToken = s])
                     = JiraConfigResponse(c)
          /\ c.openrouter.apiKey \in RealSecrets =>
                ConfigResponse([c EXCEPT !.openrouter.apiKey = s]) = ConfigResponse(c)
    /\ response.endpoint = "GET /config" =>
          \A i \in 1..3 : StoredSecrets(response.body)[i] \notin RealSecrets
    /\ response.endpoint = "GET /github/config" =>
          response.body.token \notin RealSecrets
    /\ response.endpoint = "GET /jira/config" =>
          response.body.apiToken \notin RealSecrets

\* C9: saveConfig with an update that names some fields of a section sets
\* exactly those fields; every other field of every section keeps its value.
C9_PartialUpdate ==
    [][(request'.endpoint = "POST /config" /\ PostConfig(request'.body)) =>
         \A sec \in Sections : \A k \in DOMAIN getConfig[sec] :
             getConfig'[sec][k] =
                 IF sec \in DOMAIN request'.body /\ k \in DOMAIN request'.body[sec]
                 THEN request'.body[sec][k]
                 ELSE getConfig[sec][k]]_vars

\* the last request set github.token alone, and the repositories selected
\* earlier and the model chosen earlier are still stored
C9_Witness ==
    /\ request.endpoint = "POST /config"
    /\ request.body = ("github" :> [token |-> "S2"])
    /\ getConfig.github.token = "S2"
    /\ getConfig.github.repositories = "[a/b]"
    /\ getConfig.openrouter.model = "m2"

----------------------------------------------------------------------------
(* Properties of the rolling caches *)

\* C1: after any sequence of addGitHubActivities / addJiraActivities calls
\* from an empty cache, no two records of a rolling cache share an id, also
\* when a batch itself carries an id twice.
C1_NoDuplicateIds ==
    /\ NoDuplicateIds(getJiraCache.activities)
    /\ NoDuplicateIds(getGitHubCache.activities)

\* C6: after any sequence of addActivities calls a rolling cache holds at
\* most CacheCap records, ordered by timestamp descending.
C6_CappedAndSorted ==
    /\ Len(getJiraCache.activities) <= CacheCap
    /\ SortedDesc(getJiraCache.activities)
    /\ Len(getGitHubCache.activities) <= CacheCap
    /\ SortedDesc(getGitHubCache.activities)

\* a full JIRA cache that holds records of different timestamps, next to a
\* non-empty GitHub cache
C6_Witness ==
    /\ Len(getJiraCache.activities) = CacheCap
    /\ getJiraCache.activities[1].date > getJiraCache.activities[CacheCap].date
    /\ getGitHubCache.activities # <<>>

UniqueInserted ==
    \A i, j \in 1..Len(inserted) :
        i # j => /\ inserted[i].id # inserted[j].id
                 /\ inserted[i].date # inserted[j].date

\* the n records of S with the largest timestamps
TopByDate(S, n) == {r \in S : Cardinality({q \in S : q.date > r.date}) < n}

\* C7: after inserting more than CacheCap unique records (distinct ids,
\* distinct timestamps) in any order, the rolling cache holds exactly the
\* CacheCap records with the largest timestamps among all those inserted.
C7_KeepsMostRecent ==
    (UniqueInserted /\ Len(inserted) > CacheCap) =>
        /\ Len(getJiraCache.activities) = CacheCap
        /\ Range(getJiraCache.activities) = TopByDate(Range(inserted), CacheCap)

\* more unique records than the cap were inserted, and the one inserted first
\* is among the most recent while the one inserted last was dropped
C7_Witness ==
    /\ UniqueInserted
    /\ Len(inserted) > CacheCap
    /\ inserted[1] \in Range(getJiraCache.activities)
    /\ inserted[Len(inserted)] \notin Range(getJiraCache.activities)

\* C8: addActivities is append-only: a cached record whose id was in the cache
\* before the call is one of the records that were cached before the call,
\* whatever the incoming copy with that id holds.
C8_AppendOnly ==
    [][\A r \in Range(getJiraCache.activities') :
          r.id \in Ids(getJiraCache.activities) =>
              r \in Range(getJiraCache.activities)]_vars

\* a record was inserted, a later call brought the same id with a newer
\* timestamp and other content, and the cache holds the first copy only
C8_Witness ==
    \E i, j \in 1..Len(inserted) :
        /\ i < j
        /\ inserted[i].id = inserted[j].id
        /\ inserted[i].issueSummary # inserted[j].issueSummary
        /\ inserted[j].date > inserted[i].date
        /\ inserted[i] \in Range(getJiraCache.activities)
        /\ inserted[j] \notin Range(getJiraCache.activities)

----------------------------------------------------------------------------
(* Properties of the JIRA endpoints *)

\* the last request was answered with status 200 by the endpoint
Answered(endpoint) ==
    /\ response.endpoint = endpoint
    /\ response.status = 200

ZeroCounts(summary) ==
    /\ summary.issuesWorkedOn = 0
    /\ summary.transitionsMade = 0
    /\ summary.commentsMade = 0
    /\ summary.worklogsAdded = 0

\* the stored records of the calendar days fromDate..toDate
RangeRecords(fromDate, toDate) ==
    Flatten([i \in 1..(toDate - fromDate + 1) |->
                jiraDaily[fromDate + i - 1].activities])

\* C2: once a sync has written the bucket of a day with no activity, a read
\* of that day alone answers synced = true with all counts zero.
C2_EmptyDayReadsSynced ==
    \A d \in Days :
        (/\ Answered("GET /jira/activity")
         /\ request.body = [from |-> d, to |-> d]
         /\ jiraDaily[d].exists
         /\ jiraDaily[d].activities = <<>>) =>
            /\ response.body.synced
            /\ ZeroCounts(response.body.summary)

\* C5: a range read over fromDate..toDate in which some day has no bucket
\* answers synced = false, syncedAt = null, empty lists and zero counts,
\* whatever the other days hold.
C5_PartialSyncVisibility ==
    (/\ Answered("GET /jira/activity")
     /\ \E d \in request.body.from..request.body.to : ~jiraDaily[d].exists) =>
        /\ ~response.body.synced
        /\ response.body.syncedAt = NullTime
        /\ response.body.issues = <<>>
        /\ response.body.transitions = <<>>
        /\ response.body.comments = <<>>
        /\ response.body.worklogs = <<>>
        /\ ZeroCounts(response.body.summary)

\* C10: the summary of a synced range read and of a sync response counts the
\* distinct issue keys among the records of the days fromDate..toDate, and
\* every transition record of those days.
C10_MultiDayAggregation ==
    ((Answered("GET /jira/activity") /\ response.body.synced)
        \/ Answered("POST /jira/sync")) =>
        LET records == RangeRecords(request.body.from, request.body.to) IN
        /\ response.body.summary.issuesWorkedOn = Cardinality(IssueKeys(records))
        /\ response.body.summary.transitionsMade
             = Len(OfType(records, "transition"))

\* the step is a POST /jira/sync
SyncStep ==
    /\ request'.endpoint = "POST /jira/sync"
    /\ now' = now

\* the search this sync issued last
LastCall == upstreamCalls'[Len(upstreamCalls')]

\* the sync's search for the date returned normally, and the bucket of the
\* date holds what the sync normalized from it
WrittenByThisSync(date) ==
    \E i \in 1..Len(upstreamCalls') :
        /\ upstreamCalls'[i].date = date
        /\ ~upstreamCalls'[i].outcome.throws
        /\ jiraDaily'[date] =
             DailyData(upstreamCalls'[i].outcome.issues, date, now)

\* C12: when the search for a day of the range fromDate..toDate throws, the
\* sync answers 500 {error}; the buckets of the earlier days of the range
\* hold what this sync wrote, and the buckets of that day and of the later
\* days are as they were before the call.
C12_SyncFailure ==
    [][(SyncStep /\ upstreamCalls' # <<>> /\ LastCall.outcome.throws) =>
         /\ response'.status = 500
         /\ DOMAIN response'.body = {"error"}
         /\ \A d \in request'.body.from..(LastCall.date - 1) :
               WrittenByThisSync(d)
         /\ \A d \in LastCall.date..request'.body.to :
               jiraDaily'[d] = jiraDaily[d]]_vars

\* the request answered last is a successful sync of one day, and the
\* request answered before it was a sync of the same day that got the same
\* search result
SameDaySyncedAgain ==
    /\ Answered("POST /jira/sync")
    /\ response.status = 200
    /\ request.body.from = request.body.to
    /\ earlier.calls = upstreamCalls

\* C13: when a day is synced twice and both searches return the same result,
\* the bucket written the second time has the record list and the day summary
\* of the bucket written the first time; only syncedAt may differ.
C13_IdempotentSync ==
    SameDaySyncedAgain =>
        LET bucket == jiraDaily[request.body.from] IN
        /\ earlier.bucket.exists
        /\ bucket.exists
        /\ bucket.activities = earlier.bucket.activities
        /\ bucket.summary = earlier.bucket.summary

\* the second sync ran at a later instant than the first and wrote records
C13_Witness ==
    /\ SameDaySyncedAgain
    /\ jiraDaily[request.body.from].activities # <<>>
    /\ jiraDaily[request.body.from].syncedAt > earlier.bucket.syncedAt

\* C14: every record in the bucket of day D has a timestamp whose UTC date
\* is D, the issue record included.
C14_DayBoundary ==
    \A d \in Days :
        \A i \in 1..Len(jiraDaily[d].activities) :
            IsoDate(jiraDaily[d].activities[i].date) = d

\* C15: a successful sync of the single day D leaves in bucket D exactly the
\* records normalized from this sync's search result, whatever the bucket
\* held before; a sync changes no bucket outside fromDate..toDate.
C15_ReplacesBucket ==
    [][SyncStep =>
         /\ (response'.status = 200 /\ request'.body.from = request'.body.to) =>
               /\ Len(upstreamCalls') = 1
               /\ jiraDaily'[request'.body.from].exists
               /\ jiraDaily'[request'.body.from].activities =
                    DayActivities(upstreamCalls'[1].outcome.issues,
                                  request'.body.from)
         /\ \A d \in Days \ (request'.body.from..request'.body.to) :
               jiraDaily'[d] = jiraDaily[d]]_vars

\* a sync of day 1 alone has just written bucket 1 without the transition of
\* day 1 that an earlier sync had found (the rolling cache still holds the
\* record; only a search for day 1 yields it), and bucket 0 is still filled
C15_Witness ==
    /\ Answered("POST /jira/sync")
    /\ response.status = 200
    /\ request.body = [from |-> 1, to |-> 1]
    /\ \E i \in 1..Len(getJiraCache.activities) :
          /\ getJiraCache.activities[i].type = "transition"
          /\ IsoDate(getJiraCache.activities[i].date) = 1
          /\ getJiraCache.activities[i].id \notin Ids(jiraDaily[1].activities)
    /\ jiraDaily[0].exists
    /\ jiraDaily[0].activities # <<>>

\* C16: GET /jira/activity issues no upstream call and changes no store.
C16_ReadOnly ==
    [][(request'.endpoint = "GET /jira/activity" /\ now' = now) =>
         /\ upstreamCalls' = <<>>
         /\ UNCHANGED <<jiraDaily, cacheVars, configFile, reportVars, writable>>]_vars

\* a synced range was read after a sync filled the buckets and the rolling
\* cache
C16_Witness ==
    /\ Answered("GET /jira/activity")
    /\ response.body.synced
    /\ request.body = [from |-> 0, to |-> 1]
    /\ getJiraCache.activities # <<>>

\* C17: the list the JIRA page shows for a synced day holds no issue record
\* whose issue key also has a transition, comment or worklog in the list.
C17_IssueRecordDropped ==
    (/\ Answered("GET /jira/activity")
     /\ response.body.synced
     /\ request.body.from = request.body.to) =>
        LET shown == FetchActivity(response.body) IN
        \A i, j \in 1..Len(shown) :
            (shown[i].type = "issue" /\ shown[j].type # "issue") =>
                shown[i].issueKey # shown[j].issueKey

\* C18: no id occurs twice across the issues, transitions, comments and
\* worklogs lists of a POST /jira/sync response.
C18_SyncResponseDeduped ==
    Answered("POST /jira/sync") =>
        NoDuplicateIds(response.body.issues \o response.body.transitions
                       \o response.body.comments \o response.body.worklogs)

----------------------------------------------------------------------------
(* Properties of the report builder *)

\* the response sent last is a report built by this request (a stored summary
\* served by GET /summary/daily has its generatedAt set)
ReportBuilt ==
    \/ Answered("POST /summary/generate")
    \/ Answered("GET /summary/daily") /\ response.body.generatedAt = NullTime

\* C11: jira.issuesWorkedOn of a report of fromDate..toDate is the number of
\* distinct issues that have a record in the buckets of the range.
C11_IssuesCountedOnce ==
    ReportBuilt =>
        response.body.jira.issuesWorkedOn =
            Cardinality(IssueKeys(RangeRecords(request.body.from,
                                               request.body.to)))

----------------------------------------------------------------------------
(* Properties of the error handling *)

\* C20: every response that reports a failure has status 400, 401 or 500 and
\* a JSON body {error}; no failure of an upstream call or of a storage write
\* leaves a handler uncaught.
C20_ErrorEnvelope ==
    response.status \notin {0, 200} =>
        /\ response.status \in {400, 401, 500}
        /\ DOMAIN response.body = {"error"}

----------------------------------------------------------------------------
(* Properties of the credential checks *)

AuthEndpoints ==
    {"GET /github/activity", "GET /jira/activity", "POST /jira/sync",
     "GET /jira/projects"}

\* the stored credentials an endpoint needs for its work: the GitHub searches
\* take the token and the username, the JIRA project search takes domain,
\* email and token, and the JIRA activity of the user takes the account id too
RequiredCredentials(endpoint) ==
    CASE endpoint = "GET /github/activity" ->
            {<<"github", "token">>, <<"github", "username">>}
      [] endpoint = "GET /jira/projects" ->
            {<<"jira", "domain">>, <<"jira", "email">>, <<"jira", "apiToken">>}
      [] OTHER ->
            {<<"jira", "domain">>, <<"jira", "email">>, <<"jira", "apiToken">>,
             <<"jira", "accountId">>}

LacksCredential(endpoint) ==
    \E c \in RequiredCredentials(endpoint) : ~Truthy(getConfig[c[1]][c[2]])

----------------------------------------------------------------------------
(* Properties of the records a sync writes *)

\* the issue keys that have a record of the given kind in the list
KeysOfIssueRecords(activities) == IssueKeys(OfType(activities, "issue"))
KeysOfUserRecords(activities) ==
    IssueKeys(SelectSeq(activities, LAMBDA a : a.type # "issue"))

\* C25: in every bucket, issue K has an issue record exactly when K has a
\* transition, comment or worklog record, and no issue has two issue records.
C25_IssueRecordIffActivity ==
    \A d \in Days :
        LET activities == jiraDaily[d].activities
            issues == OfType(activities, "issue")
        IN /\ KeysOfIssueRecords(activities) = KeysOfUserRecords(activities)
           /\ \A i, j \in 1..Len(issues) :
                 issues[i].issueKey = issues[j].issueKey => i = j

\* a search for day 1 returned two issues and the user had acted on both,
\* and the bucket of day 0 was written without a record
C25_Witness ==
    /\ KeysOfIssueRecords(jiraDaily[1].activities) = {"K1", "K2"}
    /\ Len(jiraDaily[1].activities) > 4
    /\ jiraDaily[0].exists
    /\ jiraDaily[0].activities = <<>>

\* the records this sync wrote into the bucket of the date
WrittenRecords(date) ==
    IF \E i \in 1..Len(upstreamCalls') :
           upstreamCalls'[i].date = date /\ ~upstreamCalls'[i].outcome.throws
    THEN jiraDaily'[date].activities ELSE <<>>

\* the record is in the rolling cache after the sync, or its id was there
\* before (dedupe), or the cap kept it out: the cache is full of records that
\* are not older
CachedOrCapped(r, before, after) ==
    \/ r.id \in Ids(after.activities)
    \/ r.id \in Ids(before.activities)
    \/ /\ Len(after.activities) = CacheCap
       /\ \A i \in 1..Len(after.activities) : after.activities[i].date >= r.date

\* C26: after a sync, the records of every bucket it wrote are in the rolling
\* cache (up to the cap), also when a later day of the range failed.
C26_WrittenDaysReachCache ==
    [][SyncStep =>
         \A d \in Days :
             \A i \in 1..Len(WrittenRecords(d)) :
                 CachedOrCapped(WrittenRecords(d)[i], getJiraCache,
                                getJiraCache')]_vars

----------------------------------------------------------------------------
(* Properties of the blob reads *)

\* C21: whenever the blob of a store is absent, a read returns the initial
\* default of the store (no activity and lastSync null, no note, no summary),
\* whatever add or save ran earlier in the process.
C21_BlobReadDefault ==
    /\ ~notesFile.exists => getNotes = DEFAULT_NOTES
    /\ ~summariesFile.exists => getSummaries = DEFAULT_SUMMARIES
    /\ ~jiraCacheFile.exists => getJiraCache = DEFAULT_JIRA_CACHE
    /\ ~githubCacheFile.exists => getGitHubCache = DEFAULT_GITHUB_CACHE

----------------------------------------------------------------------------
(* Properties of the date walk *)

\* the calendar dates from..to, ascending
DatesOfRange(fromDate, toDate) ==
    [i \in 1..(toDate - fromDate + 1) |-> fromDate + i - 1]

\* C27: for every from <= to, in every server zone, the walk yields every
\* calendar date of the inclusive range exactly once, in ascending order.
C27_WalkVisitsEachDate ==
    response.endpoint = "generate dates" =>
        response.body = DatesOfRange(request.body.from, request.body.to)

----------------------------------------------------------------------------
(* Properties of POST /summary/generate *)

GenerateStep ==
    /\ request'.endpoint = "POST /summary/generate"
    /\ now' = now
    /\ writable' = writable

\* C22: POST /summary/generate stores the summary under its date if and only
\* if from = to; for a range of several days the summaries store is
\* unchanged.
C22_PersistsSingleDayOnly ==
    [][GenerateStep =>
         IF request'.body.from = request'.body.to
         THEN getSummaries'[request'.body.from] = response'.body
         ELSE UNCHANGED <<summariesFile, summariesDefault>>]_vars

\* the language model was called and gave no report that parses
LlmFailed ==
    /\ response.endpoint = "POST /summary/generate"
    /\ upstreamCalls # <<>>
    /\ upstreamCalls[1].outcome # "report"

\* C23: when the language model call throws, answers not ok or answers a
\* content that does not parse, POST /summary/generate answers 200 with the
\* summary and its counts, aiReportStructured is null, and the summary of a
\* single day is stored.
C23_LlmFailureIsNotAnError ==
    LlmFailed =>
        /\ response.status = 200
        /\ response.body.aiReportStructured = Null
        /\ TotalActivity(response.body) > 0
        /\ request.body.from = request.body.to =>
              getDailySummary(request.body.from) = response.body

\* the model answered a content that does not parse to the report of day 1,
\* which counts an issue and is stored
C23_Witness ==
    /\ LlmFailed
    /\ upstreamCalls[1].outcome = "unparsable"
    /\ request.body = [from |-> 1, to |-> 1]
    /\ getDailySummary(1).exists
    /\ getDailySummary(1).jira.issuesWorkedOn > 0

----------------------------------------------------------------------------
(* Properties of GET /github/activity *)

\* the last request was a GET /github/activity that queried upstream
Fetched ==
    /\ response.endpoint = "GET /github/activity"
    /\ Len(upstreamCalls) = 3

\* the ids of the records a search result maps to
CommitIds(outcome) ==
    {<<"sha", outcome.items[i].sha>> : i \in 1..Len(outcome.items)}
PullRequestIds(outcome) ==
    {<<"pr", outcome.items[i].id>> : i \in 1..Len(outcome.items)}
ReviewIds(outcome) ==
    {<<"review", outcome.items[i].id>> :
        i \in {j \in 1..Len(outcome.items) :
                  outcome.items[j].login # getConfig.github.username}}

\* C24: a GET /github/activity that queries upstream answers 200; a search
\* that threw gives an empty list for its own branch, and every search that
\* answered gives the records of its result.
C24_FanOut ==
    Fetched =>
        /\ response.status = 200
        /\ Ids(response.body.commits) = CommitIds(upstreamCalls[1].outcome)
        /\ Ids(response.body.pullRequests) = PullRequestIds(upstreamCalls[2].outcome)
        /\ Ids(response.body.reviews) = ReviewIds(upstreamCalls[3].outcome)

\* the commit search and the review search threw; the pull request the
\* other search found is in the response
C24_Witness ==
    /\ Fetched
    /\ upstreamCalls[1].outcome.throws
    /\ upstreamCalls[3].outcome.throws
    /\ response.status = 200
    /\ response.body.commits = <<>>
    /\ Len(response.body.pullRequests) = 1
    /\ response.body.reviews = <<>>

\* a GET /github/activity step whose three searches threw
AllSearchesFailed ==
    /\ request'.endpoint = "GET /github/activity"
    /\ now' = now
    /\ Len(upstreamCalls') = 3
    /\ \A i \in 1..3 : upstreamCalls'[i].outcome.throws

\* C30: a GET /github/activity whose three searches fail leaves lastSync of
\* the GitHub rolling cache as it was, so that the next request is not
\* answered from the cache.
C30_FailedFetchKeepsLastSync ==
    [][AllSearchesFailed => getGitHubCache'.lastSync = getGitHubCache.lastSync]_vars

----------------------------------------------------------------------------
(* Properties of the credential validation *)

\* a validation step that did not answer 200
ValidationFailed ==
    /\ request'.endpoint \in {"POST /github/validate", "POST /jira/validate"}
    /\ response'.status # 200

\* C29: POST /github/validate and POST /jira/validate that fail, on a missing
\* field or on the upstream current-user call throwing, leave the stored
\* config unchanged.
C29_FailedValidationKeepsConfig ==
    [][ValidationFailed => configFile' = configFile]_vars

\* a new GitHub token was refused upstream and the stored token is the one
\* saved before
C29_Witness ==
    /\ response.endpoint = "POST /github/validate"
    /\ response.status = 401
    /\ request.body.token = "S2"
    /\ upstreamCalls # <<>>
    /\ getConfig.github.token = "S1"

----------------------------------------------------------------------------
(* Properties of overlapping inserts *)

\* both calls have returned, and one loaded the cache while the other had
\* loaded it and not yet written it
BothDoneOverlapped ==
    /\ \A c \in Callers : pending[c].stage = "done"
    /\ \E c \in Callers : pending[c].overlapped

\* the id is in the rolling cache, or the cap kept the record out
KeptOrCapped(r, cache) ==
    \/ r.id \in Ids(cache.activities)
    \/ /\ Len(cache.activities) = CacheCap
       /\ \A i \in 1..Len(cache.activities) : cache.activities[i].date >= r.date

\* C28: when two addJiraActivities calls overlap, the cache holds the new
\* records of both once both have returned, the cap permitting.
C28_OverlappingAddsKeepBoth ==
    BothDoneOverlapped =>
        \A c \in Callers :
            \A i \in 1..Len(pending[c].activities) :
                KeptOrCapped(pending[c].activities[i], getJiraCache)

====
